---- MODULE Spec2Model ----
(***************************************************************************)
(* A model of the SqliteDatabase facade (query builders, quoting, CRUD     *)
(* operations over one shared better-sqlite3 connection).                  *)
(*                                                                         *)
(* Encoding of JavaScript data:                                            *)
(*   - a scalar is a tagged record: Null, Bool(b), Num(n), Str(s) where s  *)
(*     is the sequence of the string's characters;                         *)
(*   - an object (mapping) is the sequence of its <<key, value>> entries   *)
(*     in property iteration order, a nested object being Obj(entries);    *)
(*     keys are TLA+ strings (names that are not integer-like, so that     *)
(*     iteration order is insertion order);                                *)
(*   - SQL text is a sequence of string pieces whose concatenation         *)
(*     (Text) is the JavaScript string.                                    *)
(***************************************************************************)
EXTENDS Integers, Sequences, FiniteSets, TLC

-----------------------------------------------------------------------------
(* Bounds of the model *)

\* most properties of one mapping drawn as an input of the builders
MaxKeys == 2
\* most rows the tables of the database hold together
MaxRows == 2
\* most statements in one atomicQuery batch
MaxBatch == 2
\* most initTables calls made on one schema descriptor
MaxInit == 2

-----------------------------------------------------------------------------
(* JavaScript values *)

Null == [t |-> "null"]
Bool(b) == [t |-> "bool", b |-> b]
Num(n) == [t |-> "num", n |-> n]
Str(s) == [t |-> "str", s |-> s]
Obj(m) == [t |-> "obj", m |-> m]

\* undefined: what prepared.get() returns when no row matches
Undefined == [t |-> "undefined"]

RECURSIVE Text(_)
\* the string a sequence of pieces stands for
Text(pieces) ==
  IF pieces = <<>> THEN "" ELSE pieces[1] \o Text(Tail(pieces))

RECURSIVE Join(_, _)
\* Array.prototype.join on an array of piece sequences
Join(arr, joiner) ==
  IF arr = <<>> THEN <<>>
  ELSE IF Len(arr) = 1 THEN arr[1]
  ELSE arr[1] \o <<joiner>> \o Join(Tail(arr), joiner)

\* Object.keys / Object.values of a mapping
ObjectKeys(obj) == [i \in 1..Len(obj) |-> obj[i][1]]
ObjectValues(obj) == [i \in 1..Len(obj) |-> obj[i][2]]

HasKey(obj, k) == \E i \in 1..Len(obj) : obj[i][1] = k

\* obj[k] = v: an existing property keeps its place, a new one goes last
SetProp(obj, k, v) ==
  IF HasKey(obj, k)
  THEN [i \in 1..Len(obj) |-> IF obj[i][1] = k THEN <<k, v>> ELSE obj[i]]
  ELSE Append(obj, <<k, v>>)

RECURSIVE ObjectAssign(_, _)
\* Object.assign(target, source)
ObjectAssign(target, source) ==
  IF source = <<>> THEN target
  ELSE ObjectAssign(SetProp(target, source[1][1], source[1][2]), Tail(source))

-----------------------------------------------------------------------------
(* escape / unescape (the global functions of JavaScript) *)

\* characters escape() leaves alone, among those the model draws
Unreserved == {"x", "n", "u", "l", "r", "w", "R", "U", "W", "2", "5", "7"}
HexDigits == {"2", "5", "7"}

\* the %XX code of a character escape() encodes
PercentCode(c) ==
  CASE c = "'" -> <<"%", "2", "7">>
    [] c = "%" -> <<"%", "2", "5">>
    [] c = "\"" -> <<"%", "2", "2">>

\* the character with code 0xab
HexChar(a, b) ==
  CASE a = "2" /\ b = "2" -> "\""
    [] a = "2" /\ b = "5" -> "%"
    [] a = "2" /\ b = "7" -> "'"
    [] a = "5" /\ b = "2" -> "R"
    [] a = "5" /\ b = "5" -> "U"
    [] a = "5" /\ b = "7" -> "W"
    [] a = "7" /\ b = "2" -> "r"
    [] a = "7" /\ b = "5" -> "u"
    [] a = "7" /\ b = "7" -> "w"

RECURSIVE escape(_)
escape(s) ==
  IF s = <<>> THEN <<>>
  ELSE (IF s[1] \in Unreserved THEN <<s[1]>> ELSE PercentCode(s[1]))
       \o escape(Tail(s))

RECURSIVE unescape(_)
unescape(s) ==
  IF s = <<>> THEN <<>>
  ELSE IF s[1] = "%" /\ Len(s) >= 3 /\ s[2] \in HexDigits /\ s[3] \in HexDigits
       THEN <<HexChar(s[2], s[3])>> \o unescape(SubSeq(s, 4, Len(s)))
       ELSE <<s[1]>> \o unescape(Tail(s))

-----------------------------------------------------------------------------
(* quoting helpers *)

\* quote with the two boolean branches exchanged
quoteSwapped(k, isColumn) ==
  IF isColumn
  THEN "\"" \o k \o "\""
  ELSE CASE k.t = "str" -> Str(escape(k.s))
         [] k.t = "null" -> Str(<<"n", "u", "l", "l">>)
         [] k.t = "bool" -> IF k.b THEN Num(0) ELSE Num(1)
         [] OTHER -> k

\* quote(k, isColumn): with isColumn the callers pass an identifier (a
\* property name or a schema column name, always a string); without it a
\* value, which may be of any scalar type.
quote(k, isColumn) ==
  IF isColumn
  THEN "\"" \o k \o "\""
  ELSE CASE k.t = "str" -> Str(escape(k.s))
         [] k.t = "null" -> Str(<<"n", "u", "l", "l">>)
         [] k.t = "bool" -> IF k.b THEN Num(1) ELSE Num(0)
         [] OTHER -> k

quoteAll(arr, isColumn) == [i \in 1..Len(arr) |-> quote(arr[i], isColumn)]

\* dequoteAll(obj) on a row the store returned (a function from column
\* names to values) or on undefined
dequoteAll(obj) ==
  IF obj = Undefined THEN obj
  ELSE [k \in DOMAIN obj |->
          IF obj[k].t = "str" THEN Str(unescape(obj[k].s)) ELSE obj[k]]

-----------------------------------------------------------------------------
(* flattenObj and the statement builders *)

RECURSIVE flattenObj(_, _, _)
\* parent = "" stands for an absent parent (falsy)
flattenObj(obj, parent, res) ==
  IF obj = <<>> THEN res
  ELSE LET key == obj[1][1]
           val == obj[1][2]
           propName == IF parent # "" THEN parent \o "_" \o key ELSE key
           res1 == IF val.t = "obj"
                   THEN flattenObj(val.m, propName, res)
                   ELSE SetProp(res, propName, val)
       IN flattenObj(Tail(obj), parent, res1)

flatten(obj) == flattenObj(obj, "", <<>>)

buildParamString(params, joiner, kvJoiner) ==
  LET flattenedItem == flatten(params)
      paramString == [i \in 1..Len(flattenedItem) |->
                        <<quote(flattenedItem[i][1], TRUE), kvJoiner>>]
  IN Join(paramString, joiner)

\* buildInsertQuery with one placeholder per property of params, not per
\* flattened field
buildInsertQueryTopLevelMarks(table, params) ==
  LET flattenedItem == flatten(params)
      keys == ObjectKeys(flattenedItem)
      columnNamesString == Join([i \in 1..Len(keys) |-> <<quote(keys[i], TRUE)>>], ", ")
      dataString == Join([i \in 1..Len(params) |-> <<"?">>], ", ")
  IN <<"INSERT INTO \"", table, "\" (">> \o columnNamesString
     \o <<") VALUES (">> \o dataString \o <<");">>

buildInsertQuery(table, params) ==
  LET flattenedItem == flatten(params)
      keys == ObjectKeys(flattenedItem)
      columnNamesString == Join([i \in 1..Len(keys) |-> <<quote(keys[i], TRUE)>>], ", ")
      dataString == Join([i \in 1..Len(keys) |-> <<"?">>], ", ")
  IN <<"INSERT INTO \"", table, "\" (">> \o columnNamesString
     \o <<") VALUES (">> \o dataString \o <<");">>

\* buildSelectQuery without the test of whereString
buildSelectQueryAlwaysWhere(table, params) ==
  LET whereString == buildParamString(params, " AND ", " = ?")
  IN <<"SELECT * FROM \"", table, "\" WHERE ">> \o whereString \o <<";">>

buildSelectQuery(table, params) ==
  LET whereString == buildParamString(params, " AND ", " = ?")
  IN IF Text(whereString) # ""
     THEN <<"SELECT * FROM \"", table, "\" WHERE ">> \o whereString \o <<";">>
     ELSE <<"SELECT * FROM \"", table, "\";">>

\* buildUpdateQuery with the SET terms joined by the default joiner
buildUpdateQueryDefaultJoiner(table, valueParams, whereParams) ==
  LET flattenedValues == flatten(valueParams)
      flattenedWhere == flatten(whereParams)
      valueString == buildParamString(flattenedValues, " AND ", " = ?")
      whereString == buildParamString(flattenedWhere, " AND ", " = ?")
  IN IF Text(whereString) # ""
     THEN <<"UPDATE \"", table, "\" SET ">> \o valueString
          \o <<" WHERE ">> \o whereString \o <<";">>
     ELSE <<"UPDATE \"", table, "\" SET ">> \o valueString \o <<"\";">>

buildUpdateQuery(table, valueParams, whereParams) ==
  LET flattenedValues == flatten(valueParams)
      flattenedWhere == flatten(whereParams)
      valueString == buildParamString(flattenedValues, ", ", " = ?")
      whereString == buildParamString(flattenedWhere, " AND ", " = ?")
  IN IF Text(whereString) # ""
     THEN <<"UPDATE \"", table, "\" SET ">> \o valueString
          \o <<" WHERE ">> \o whereString \o <<";">>
     ELSE <<"UPDATE \"", table, "\" SET ">> \o valueString \o <<"\";">>

\* the values insert, find and findOne bind (lines 236, 257, 271)
bindValues(params) == quoteAll(ObjectValues(flatten(params)), FALSE)

\* the values update binds (lines 285-288)
updateValues(valueParams, whereParams) ==
  LET params == ObjectAssign(flatten(valueParams), flatten(whereParams))
  IN quoteAll(ObjectValues(flatten(params)), FALSE)

-----------------------------------------------------------------------------
(* The store: one better-sqlite3 connection on one database file.          *)
(* A table is [exists, cols, rows]; a row maps each column of its table to *)
(* a stored value (Null, Num or Str); values are stored as bound, with no  *)
(* type affinity conversion.                                               *)

TableNames == {"t", "u"}
ColNames == {"f", "g"}

NoTable == [exists |-> FALSE, cols |-> <<>>, rows |-> <<>>]
EmptyDb == [n \in TableNames |-> NoTable]

Range(seq) == {seq[i] : i \in 1..Len(seq)}

RowCount(tabs) ==
  LET RECURSIVE Sum(_)
      Sum(S) == IF S = {} THEN 0
                ELSE LET n == CHOOSE x \in S : TRUE
                     IN Len(tabs[n].rows) + Sum(S \ {n})
  IN Sum(TableNames)

\* the piece a statement parser could not make sense of
Bad == [ok |-> FALSE]

\* the property name whose quoted form is the piece c
IsQuotedName(c) == \E k \in ColNames : quote(k, TRUE) = c
Unquote(c) == CHOOSE k \in ColNames : quote(k, TRUE) = c

\* the literal values the batch statements of the model write inline
IsLiteral(p) == p \in {"7", "8"}
LiteralValue(p) == IF p = "7" THEN Num(7) ELSE Num(8)

\* "c1" = ? <joiner> "c2" = ? ... : the columns, or Bad
ParseTerms(pieces, joiner) ==
  IF pieces = <<>> \/ Len(pieces) % 3 # 2 THEN Bad
  ELSE LET n == (Len(pieces) + 1) \div 3
       IN IF \A i \in 1..n :
                /\ IsQuotedName(pieces[3 * i - 2])
                /\ pieces[3 * i - 1] = " = ?"
                /\ (i < n => pieces[3 * i] = joiner)
          THEN [ok |-> TRUE, cols |-> [i \in 1..n |-> Unquote(pieces[3 * i - 2])]]
          ELSE Bad

\* x1, x2, ... : the items, or Bad
ParseList(pieces) ==
  IF pieces = <<>> \/ Len(pieces) % 2 # 1 THEN Bad
  ELSE LET n == (Len(pieces) + 1) \div 2
       IN IF \A i \in 1..(n - 1) : pieces[2 * i] = ", "
          THEN [ok |-> TRUE, items |-> [i \in 1..n |-> pieces[2 * i - 1]]]
          ELSE Bad

IndexOf(pieces, p) ==
  IF \E i \in 1..Len(pieces) : pieces[i] = p
  THEN CHOOSE i \in 1..Len(pieces) :
         pieces[i] = p /\ \A j \in 1..(i - 1) : pieces[j] # p
  ELSE 0

KnownCols(tabs, table, cols) ==
  /\ table \in TableNames
  /\ tabs[table].exists
  /\ \A i \in 1..Len(cols) : cols[i] \in Range(tabs[table].cols)

PrepareInsert(sql, tabs) ==
  LET p == IndexOf(sql, ") VALUES (")
  IN IF Len(sql) < 7 \/ sql[3] # "\" (" \/ p = 0 \/ sql[Len(sql)] # ");" THEN Bad
     ELSE LET names == ParseList(SubSeq(sql, 4, p - 1))
              vals == ParseList(SubSeq(sql, p + 1, Len(sql) - 1))
          IN IF ~names.ok \/ ~vals.ok THEN Bad
             ELSE IF \/ Len(names.items) # Len(vals.items)
                     \/ \E i \in 1..Len(names.items) : ~IsQuotedName(names.items[i])
                     \/ \E i \in 1..Len(vals.items) :
                          vals.items[i] # "?" /\ ~IsLiteral(vals.items[i])
             THEN Bad
             ELSE LET cols == [i \in 1..Len(names.items) |-> Unquote(names.items[i])]
                  IN IF ~KnownCols(tabs, sql[2], cols) THEN Bad
                     ELSE [ok |-> TRUE, kind |-> "insert", table |-> sql[2],
                           cols |-> cols, vals |-> vals.items, where |-> <<>>]

PrepareSelect(sql, tabs) ==
  IF Len(sql) = 3 /\ sql[3] = "\";"
  THEN IF KnownCols(tabs, sql[2], <<>>)
       THEN [ok |-> TRUE, kind |-> "select", table |-> sql[2],
             cols |-> <<>>, vals |-> <<>>, where |-> <<>>]
       ELSE Bad
  ELSE IF Len(sql) < 5 \/ sql[3] # "\" WHERE " \/ sql[Len(sql)] # ";" THEN Bad
  ELSE LET w == ParseTerms(SubSeq(sql, 4, Len(sql) - 1), " AND ")
       IN IF ~w.ok THEN Bad
          ELSE IF ~KnownCols(tabs, sql[2], w.cols) THEN Bad
          ELSE [ok |-> TRUE, kind |-> "select", table |-> sql[2],
                cols |-> <<>>, vals |-> <<>>, where |-> w.cols]

PrepareUpdate(sql, tabs) ==
  LET p == IndexOf(sql, " WHERE ")
  IN IF Len(sql) < 5 \/ sql[3] # "\" SET " \/ p = 0 \/ sql[Len(sql)] # ";" THEN Bad
     ELSE LET s == ParseTerms(SubSeq(sql, 4, p - 1), ", ")
              w == ParseTerms(SubSeq(sql, p + 1, Len(sql) - 1), " AND ")
          IN IF ~s.ok \/ ~w.ok THEN Bad
             ELSE IF ~KnownCols(tabs, sql[2], s.cols \o w.cols) THEN Bad
             ELSE [ok |-> TRUE, kind |-> "update", table |-> sql[2],
                   cols |-> s.cols, vals |-> [i \in 1..Len(s.cols) |-> "?"],
                   where |-> w.cols]

\* db.prepare(sql): the compiled statement, or Bad when prepare throws
\* (syntax error, no such table, no such column)
Prepare(sql, tabs) ==
  IF Len(sql) < 3 THEN Bad
  ELSE CASE sql[1] = "INSERT INTO \"" -> PrepareInsert(sql, tabs)
         [] sql[1] = "SELECT * FROM \"" -> PrepareSelect(sql, tabs)
         [] sql[1] = "UPDATE \"" -> PrepareUpdate(sql, tabs)
         [] OTHER -> Bad

\* the number of ? of a compiled statement
ParamCount(stmt) ==
  Cardinality({i \in 1..Len(stmt.vals) : stmt.vals[i] = "?"}) + Len(stmt.where)

\* better-sqlite3 binds numbers, strings and null, and as many values as
\* the statement has parameters; anything else throws before execution
Bindable(stmt, values) ==
  /\ Len(values) = ParamCount(stmt)
  /\ \A i \in 1..Len(values) : values[i].t \in {"num", "str", "null"}

\* column = value in SQL: NULL equals nothing
SqlEq(stored, v) == stored.t # "null" /\ v.t # "null" /\ stored = v

\* the rows of a table a WHERE clause selects, as indices
Matching(rows, where, wvals) ==
  {i \in 1..Len(rows) : \A j \in 1..Len(where) : SqlEq(rows[i][where[j]], wvals[j])}

\* the position among the bound values of the i-th item of stmt.vals
ParamIndex(stmt, i) == Cardinality({j \in 1..i : stmt.vals[j] = "?"})

\* the values a statement writes, per written column
Written(stmt, values) ==
  [i \in 1..Len(stmt.cols) |->
     IF stmt.vals[i] = "?" THEN values[ParamIndex(stmt, i)]
     ELSE LiteralValue(stmt.vals[i])]

\* the tables after an INSERT or UPDATE statement has run to its end
Execute(stmt, values, tabs) ==
  LET tab == tabs[stmt.table]
      w == Written(stmt, values)
      nset == ParamCount(stmt) - Len(stmt.where)
      wvals == SubSeq(values, nset + 1, Len(values))
      wrote(c) == \E i \in 1..Len(stmt.cols) : stmt.cols[i] = c
      valueOf(c) == w[CHOOSE i \in 1..Len(stmt.cols) :
                        stmt.cols[i] = c /\ \A j \in (i + 1)..Len(stmt.cols) : stmt.cols[j] # c]
  IN IF stmt.kind = "insert"
     THEN [tabs EXCEPT ![stmt.table].rows =
             Append(@, [c \in Range(tab.cols) |-> IF wrote(c) THEN valueOf(c) ELSE Null])]
     ELSE LET hit == Matching(tab.rows, stmt.where, wvals)
          IN [tabs EXCEPT ![stmt.table].rows =
                [i \in 1..Len(tab.rows) |->
                   IF i \in hit
                   THEN [c \in Range(tab.cols) |->
                           IF wrote(c) THEN valueOf(c) ELSE tab.rows[i][c]]
                   ELSE tab.rows[i]]]

\* the rows a SELECT statement returns, in table order
Select(stmt, values, tabs) ==
  LET rows == tabs[stmt.table].rows
      hit == Matching(rows, stmt.where, values)
      RECURSIVE Pick(_)
      Pick(i) == IF i > Len(rows) THEN <<>>
                 ELSE (IF i \in hit THEN <<rows[i]>> ELSE <<>>) \o Pick(i + 1)
  IN Pick(1)

-----------------------------------------------------------------------------
(* CREATE TABLE IF NOT EXISTS, as initTables writes it *)

RECURSIVE Quotes(_)
\* n double-quote characters
Quotes(n) == IF n = 0 THEN "" ELSE "\"" \o Quotes(n - 1)

RECURSIVE Wrapped(_, _)
\* a name after d applications of quote
Wrapped(name, d) == IF d = 0 THEN name ELSE quote(Wrapped(name, d - 1), TRUE)

\* how often quote has been applied to the column name piece c
IsWrapped(c) == \E k \in ColNames, d \in 1..MaxInit : Wrapped(k, d) = c
WrapName(c) == CHOOSE k \in ColNames : \E d \in 1..MaxInit : Wrapped(k, d) = c
WrapDepth(c) == CHOOSE d \in 1..MaxInit : \E k \in ColNames : Wrapped(k, d) = c

\* the column name SQLite reads at the head of the column definition c:
\* a double-quoted identifier ends at the first quote that is not doubled
SqlIdent(c) ==
  LET d == WrapDepth(c)
  IN IF d % 2 = 1
     THEN Quotes((d - 1) \div 2) \o WrapName(c) \o Quotes((d - 1) \div 2)
     ELSE Quotes(d \div 2 - 1)

\* CREATE TABLE IF NOT EXISTS "name" (c1 t1, c2 t2, ...); : the column
\* names of the statement, or Bad (syntax error, duplicate column name)
PrepareCreate(sql, tabs) ==
  IF Len(sql) < 7 \/ sql[1] # "CREATE TABLE IF NOT EXISTS \"" \/ sql[3] # "\" ("
     \/ sql[Len(sql)] # ");" \/ Len(sql) % 4 # 3
  THEN Bad
  ELSE LET n == (Len(sql) - 3) \div 4
           def(i) == SubSeq(sql, 4 * i, 4 * i + 2)
       IN IF \E i \in 1..n :
               \/ ~IsWrapped(def(i)[1])
               \/ def(i)[2] # " "
               \/ (i < n /\ sql[4 * i + 3] # ", ")
          THEN Bad
          ELSE LET cols == [i \in 1..n |-> SqlIdent(def(i)[1])]
               IN IF sql[2] \notin TableNames THEN Bad
                  ELSE IF tabs[sql[2]].exists
                  THEN [ok |-> TRUE, kind |-> "create", table |-> sql[2], cols |-> <<>>]
                  ELSE IF \E i, j \in 1..n : i # j /\ cols[i] = cols[j] THEN Bad
                  ELSE [ok |-> TRUE, kind |-> "create", table |-> sql[2], cols |-> cols]

\* the tables after a CREATE TABLE IF NOT EXISTS statement has run
ExecuteCreate(stmt, tabs) ==
  IF tabs[stmt.table].exists THEN tabs
  ELSE [tabs EXCEPT ![stmt.table] = [exists |-> TRUE, cols |-> stmt.cols, rows |-> <<>>]]

-----------------------------------------------------------------------------
(* The operations of SqliteDatabase, on db = [tables, committed, inTxn]:   *)
(* the database as the connection sees it (what find reads), the database  *)
(* as last committed, and whether the connection has an open transaction.  *)
(* fault names the store call of the method that fails for a reason        *)
(* outside the method (busy or locked database, constraint violation, I/O  *)
(* error); 0 is none.                                                      *)

Db(tabs, com, txn) == [tables |-> tabs, committed |-> com, inTxn |-> txn]

\* how a call ended: the state it leaves and what its caller sees
Outcome(tabs, com, txn, threw, storeFailed, runs, ret) ==
  [tables |-> tabs, committed |-> com, inTxn |-> txn, threw |-> threw,
   storeFailed |-> storeFailed, runs |-> runs, ret |-> ret]

\* a store call failed and the exception leaves the method
Throw(db, tabs, txn, runs) ==
  Outcome(tabs, db.committed, txn, TRUE, TRUE, runs, Undefined)

\* the value run() returns
Info(n) == [changes |-> n]

\* db.prepare('BEGIN ...').run() throws inside an open transaction
BeginFails(db) == db.inTxn

\* insert writing the row one field at a time: a failure of the statement
\* leaves the row with its first field only
insertFieldByField(db, table, params, fault) ==
  LET query == buildInsertQuery(table, params)
      prepared == Prepare(query, db.tables)
      values == bindValues(params)
  IN IF ~prepared.ok THEN Throw(db, db.tables, db.inTxn, 0)
     ELSE IF BeginFails(db) THEN Throw(db, db.tables, db.inTxn, 0)
     ELSE IF ~Bindable(prepared, values) THEN Throw(db, db.tables, TRUE, 0)
     ELSE IF fault = 2
     THEN Throw(db, Execute([prepared EXCEPT !.cols = <<@[1]>>, !.vals = <<"?">>],
                            <<values[1]>>, db.tables), TRUE, 1)
     ELSE LET after == Execute(prepared, values, db.tables)
          IN IF fault = 3 THEN Throw(db, after, TRUE, 1)
             ELSE Outcome(after, after, FALSE, FALSE, FALSE, 1, Info(1))

\* insert running its statement again when the store fails it
insertRetry(db, table, params, fault) ==
  LET query == buildInsertQuery(table, params)
      prepared == Prepare(query, db.tables)
      values == bindValues(params)
  IN IF ~prepared.ok THEN Throw(db, db.tables, db.inTxn, 0)
     ELSE IF BeginFails(db) THEN Throw(db, db.tables, db.inTxn, 0)
     ELSE IF ~Bindable(prepared, values) THEN Throw(db, db.tables, TRUE, 0)
     ELSE LET after == Execute(prepared, values, db.tables)
          IN IF fault = 3 THEN Throw(db, after, TRUE, 1)
             ELSE Outcome(after, after, FALSE, FALSE, fault = 2,
                          IF fault = 2 THEN 2 ELSE 1, Info(1))

\* insert(table, params): store calls 1 BEGIN, 2 the INSERT, 3 COMMIT
insert(db, table, params, fault) ==
  LET query == buildInsertQuery(table, params)
      prepared == Prepare(query, db.tables)
      values == bindValues(params)
  IN IF ~prepared.ok THEN Throw(db, db.tables, db.inTxn, 0)
     ELSE IF BeginFails(db) THEN Throw(db, db.tables, db.inTxn, 0)
     ELSE IF ~Bindable(prepared, values) THEN Throw(db, db.tables, TRUE, 0)
     ELSE IF fault = 2 THEN Throw(db, db.tables, TRUE, 1)
     ELSE LET after == Execute(prepared, values, db.tables)
          IN IF fault = 3 THEN Throw(db, after, TRUE, 1)
             ELSE Outcome(after, after, FALSE, FALSE, FALSE, 1, Info(1))

\* find(table, params): store call 1 the SELECT
find(db, table, params, fault) ==
  LET query == buildSelectQuery(table, params)
      prepared == Prepare(query, db.tables)
      values == bindValues(params)
  IN IF ~prepared.ok THEN Throw(db, db.tables, db.inTxn, 0)
     ELSE IF ~Bindable(prepared, values) THEN Throw(db, db.tables, db.inTxn, 0)
     ELSE IF fault = 1 THEN Throw(db, db.tables, db.inTxn, 1)
     ELSE LET all == Select(prepared, values, db.tables)
          IN Outcome(db.tables, db.committed, db.inTxn, FALSE, FALSE, 1,
                     [i \in 1..Len(all) |-> dequoteAll(all[i])])

\* findOne running its statement without the filter's values
findOneFirstRow(db, table, params, fault) ==
  LET query == buildSelectQuery(table, params)
      prepared == Prepare(query, db.tables)
      values == bindValues(params)
  IN IF ~prepared.ok THEN Throw(db, db.tables, db.inTxn, 0)
     ELSE IF ~Bindable(prepared, values) THEN Throw(db, db.tables, db.inTxn, 0)
     ELSE IF fault = 1 THEN Throw(db, db.tables, db.inTxn, 1)
     ELSE LET all == db.tables[table].rows
              get == IF all = <<>> THEN Undefined ELSE all[1]
          IN Outcome(db.tables, db.committed, db.inTxn, FALSE, FALSE, 1,
                     dequoteAll(get))

\* findOne(table, params): store call 1 the SELECT
findOne(db, table, params, fault) ==
  LET query == buildSelectQuery(table, params)
      prepared == Prepare(query, db.tables)
      values == bindValues(params)
  IN IF ~prepared.ok THEN Throw(db, db.tables, db.inTxn, 0)
     ELSE IF ~Bindable(prepared, values) THEN Throw(db, db.tables, db.inTxn, 0)
     ELSE IF fault = 1 THEN Throw(db, db.tables, db.inTxn, 1)
     ELSE LET all == Select(prepared, values, db.tables)
              get == IF all = <<>> THEN Undefined ELSE all[1]
          IN Outcome(db.tables, db.committed, db.inTxn, FALSE, FALSE, 1,
                     dequoteAll(get))

\* update(table, valueParams, whereParams): store calls 1 BEGIN, 2 the
\* UPDATE, 3 COMMIT
update(db, table, valueParams, whereParams, fault) ==
  LET query == buildUpdateQuery(table, valueParams, whereParams)
      prepared == Prepare(query, db.tables)
      values == updateValues(valueParams, whereParams)
  IN IF ~prepared.ok THEN Throw(db, db.tables, db.inTxn, 0)
     ELSE IF BeginFails(db) THEN Throw(db, db.tables, db.inTxn, 0)
     ELSE IF ~Bindable(prepared, values) THEN Throw(db, db.tables, TRUE, 0)
     ELSE IF fault = 2 THEN Throw(db, db.tables, TRUE, 1)
     ELSE LET after == Execute(prepared, values, db.tables)
              nset == ParamCount(prepared) - Len(prepared.where)
              hit == Matching(db.tables[table].rows, prepared.where,
                              SubSeq(values, nset + 1, Len(values)))
          IN IF fault = 3 THEN Throw(db, after, TRUE, 1)
             ELSE Outcome(after, after, FALSE, FALSE, FALSE, 1, Info(Cardinality(hit)))

RECURSIVE BatchLoop(_, _, _, _)
\* the loop of atomicQuery from statement i on: the tables it leaves, and
\* the statement that threw (0: none)
BatchLoop(queries, i, tabs, fault) ==
  IF i > Len(queries) THEN [tables |-> tabs, failedAt |-> 0]
  ELSE LET prepared == Prepare(queries[i], tabs)
       IN IF ~prepared.ok \/ ~Bindable(prepared, <<>>) \/ fault = i + 1
          THEN [tables |-> tabs, failedAt |-> i]
          ELSE BatchLoop(queries, i + 1, Execute(prepared, <<>>, tabs), fault)

\* atomicQuery(queries): store calls 1 BEGIN EXCLUSIVE, 1 + i statement i,
\* Len(queries) + 2 COMMIT.  The loop variable query is not declared: in
\* the strict code of a class body the first assignment to it throws a
\* ReferenceError unless the global object has a property of that name
\* (globalQuery) when the call is made.
atomicQuery(db, queries, globalQuery, fault) ==
  IF BeginFails(db) \/ fault = 1 THEN Throw(db, db.tables, db.inTxn, 0)
  ELSE IF queries # <<>> /\ ~globalQuery
  THEN Outcome(db.tables, db.committed, TRUE, TRUE, FALSE, 0, Undefined)
  ELSE LET loop == BatchLoop(queries, 1, db.tables, fault)
           runs == IF queries = <<>> THEN 0 ELSE 1
       IN IF loop.failedAt # 0 THEN Throw(db, loop.tables, TRUE, 1)
          ELSE IF fault = Len(queries) + 2 THEN Throw(db, loop.tables, TRUE, runs)
          ELSE Outcome(loop.tables, loop.tables, FALSE, FALSE, FALSE, runs, Undefined)

\* line 107: v[0] = this.quote(v[0]) on every column of a table
QuoteColumns(tdef) ==
  [tdef EXCEPT !.columns =
     [i \in 1..Len(@) |-> <<quote(@[i][1], TRUE), @[i][2]>>]]

\* lines 106-111: the CREATE TABLE statement of a table whose column names
\* have been quoted
CreateStatement(tdef) ==
  LET flattenedColumns ==
        [i \in 1..Len(tdef.columns) |-> <<tdef.columns[i][1], " ", tdef.columns[i][2]>>]
      columnString == Join(flattenedColumns, ", ")
  IN <<"CREATE TABLE IF NOT EXISTS \"", tdef.tableName, "\" (">>
     \o columnString \o <<");">>

RECURSIVE InitLoop(_, _, _, _)
\* the loop of initTables from table i on: the tables and the descriptor
\* it leaves, and the table whose statement threw (0: none)
InitLoop(schema, i, tabs, fault) ==
  IF i > Len(schema) THEN [tables |-> tabs, schema |-> schema, failedAt |-> 0]
  ELSE LET quoted == [schema EXCEPT ![i] = QuoteColumns(@)]
           prepared == PrepareCreate(CreateStatement(quoted[i]), tabs)
       IN IF ~prepared.ok \/ fault = i + 1
          THEN [tables |-> tabs, schema |-> quoted, failedAt |-> i]
          ELSE InitLoop(quoted, i + 1, ExecuteCreate(prepared, tabs), fault)

\* initTables(schema): store calls 1 BEGIN EXCLUSIVE, 1 + i the CREATE of
\* table i, Len(schema) + 2 COMMIT.  The outcome's ret is the descriptor
\* as the call leaves it and the table whose CREATE threw (0: none).
initTables(db, schema, fault) ==
  IF BeginFails(db) \/ fault = 1
  THEN Outcome(db.tables, db.committed, db.inTxn, TRUE, TRUE, 0,
               [schema |-> schema, failedAt |-> 0])
  ELSE LET loop == InitLoop(schema, 1, db.tables, fault)
           ret == [schema |-> loop.schema, failedAt |-> loop.failedAt]
       IN IF loop.failedAt # 0 \/ fault = Len(schema) + 2
          THEN Outcome(loop.tables, db.committed, TRUE, TRUE, TRUE, 1, ret)
          ELSE Outcome(loop.tables, loop.tables, FALSE, FALSE, FALSE, 1, ret)

-----------------------------------------------------------------------------
(* Schema descriptors and inputs *)

Column(name, type) == <<name, type>>
TableDef(name, columns) == [tableName |-> name, columns |-> columns]

SchemaTwo ==
  <<TableDef("t", <<Column("f", "TEXT")>>),
    TableDef("u", <<Column("f", "NUMERIC"), Column("g", "TEXT")>>)>>

\* the second table names one column twice: its CREATE TABLE fails
SchemaDup ==
  <<TableDef("t", <<Column("f", "TEXT")>>),
    TableDef("u", <<Column("f", "NUMERIC"), Column("f", "TEXT")>>)>>

Schemas == {SchemaTwo, SchemaDup}

\* INSERT INTO "table" ("f") VALUES (literal);
InsertLiteral(table, lit) ==
  <<"INSERT INTO \"", table, "\" (", "\"f\"", ") VALUES (", lit, ");">>

Statements == {InsertLiteral("t", "7"), InsertLiteral("nosuch", "7")}

BatchInputs ==
  {<<>>} \cup UNION {[1..n -> Statements] : n \in 1..MaxBatch}

\* the calls the transaction model draws: <<table, row>>, <<table, filter>>
\* and <<table, values, filter>>
InsertInputs ==
  {<<"t", << <<"f", Str(<<"'">>)>> >> >>,
   <<"u", << <<"f", Num(2)>>, <<"g", Str(<<"'">>)>> >> >>,
   <<"u", <<>> >>}

FindInputs ==
  {<<"t", <<>> >>, <<"u", <<>> >>, <<"u", << <<"g", Str(<<"'">>)>> >> >>}

UpdateInputs ==
  {<<"u", << <<"g", Num(2)>> >>, << <<"f", Num(2)>> >> >>,
   <<"u", << <<"f", Num(2)>> >>, << <<"f", Num(8)>> >> >>,
   <<"u", << <<"f", Bool(TRUE)>>, <<"g", Null>> >>, << <<"g", Str(<<"'">>)>> >> >>,
   <<"t", << <<"f", Num(2)>> >>, <<>> >>}

\* the calls the one-column model draws
DbVals == {Null, Bool(TRUE), Bool(FALSE), Num(2), Str(<<"'">>), Str(<<"%", "2", "7">>)}

CrudInsertInputs == {<<"t", << <<"f", v>> >> >> : v \in DbVals}

CrudFindInputs == CrudInsertInputs \cup {<<"t", <<>> >>}

CrudUpdateInputs ==
  {<<"t", << <<"f", Num(2)>> >>, << <<"f", Bool(TRUE)>> >> >>}

-----------------------------------------------------------------------------
(* State *)

VARIABLES
  tables,       \* the database as the connection sees it (what find reads)
  committed,    \* the database as last committed
  inTxn,        \* the connection has an open transaction
  descr,        \* the schema descriptor object the caller holds
  nInit,        \* initTables calls made so far
  call          \* the last call: its arguments, how it ended, the state before

\* the state of the bot (index.js) and of its persistence (mfwbotcrashes.js)
VARIABLES
  loki,         \* db: the collections of the lokijs database, in memory
  disk,         \* the collections as the last saveDatabase wrote them
  pending,      \* callbacks not run yet: saves, sends and timers under way
  jobs,         \* the cron jobs scheduled
  channelsCron, \* the array the scheduling loop of the init callback went over
  channelKey,   \* the loop variable channel of the init callback (0: unset)
  sent,         \* the messages the bot has sent
  alive,        \* the process runs
  ev            \* the last call or event: its arguments and what it did

sqlVars == <<tables, committed, inTxn, descr, nInit, call>>

botVars == <<loki, disk, pending, jobs, channelsCron, channelKey, sent, alive, ev>>

vars == <<sqlVars, botVars>>

\* the collections init creates in a database that has none (line 15)
LokiEmpty == [channelInfo |-> <<>>, questions |-> <<>>,
              shallowQuestions |-> <<>>, userInfo |-> <<>>]

\* no call made, no event handled; once and again: the messages on which a
\* reaction has made handleReaction call postNewMessage, and those on which
\* it has more than once
Quiet == [op |-> "none", args |-> <<>>, log |-> <<>>, threw |-> FALSE,
          once |-> {}, again |-> {}]

\* index.js is not running
NoBot ==
  /\ loki = LokiEmpty
  /\ disk = LokiEmpty
  /\ pending = <<>>
  /\ jobs = <<>>
  /\ channelsCron = <<>>
  /\ channelKey = 0
  /\ sent = <<>>
  /\ alive = FALSE
  /\ ev = Quiet

Current == Db(tables, committed, inTxn)

\* no insert returned just before the call
NoPrior == [op |-> "none", table |-> "", a1 |-> <<>>, fresh |-> FALSE]

Idle == [op |-> "none", table |-> "", a1 |-> <<>>, a2 |-> <<>>, threw |-> FALSE,
         storeFailed |-> FALSE, runs |-> 0, ret |-> Undefined, pre |-> EmptyDb,
         preTxn |-> FALSE, prior |-> NoPrior]

\* the call made just before the one that ends now, when it was an insert
\* that returned: its table, its row, and whether its table was empty
Prior ==
  IF call.op = "insert" /\ ~call.threw
  THEN [op |-> "insert", table |-> call.table, a1 |-> call.a1,
        fresh |-> call.pre[call.table].rows = <<>>]
  ELSE NoPrior

\* a call has run to its end
Ended(op, table, a1, a2, out) ==
  /\ tables' = out.tables
  /\ committed' = out.committed
  /\ inTxn' = out.inTxn
  /\ call' = [op |-> op, table |-> table, a1 |-> a1, a2 |-> a2,
              threw |-> out.threw, storeFailed |-> out.storeFailed,
              runs |-> out.runs, ret |-> out.ret, pre |-> tables,
              preTxn |-> inTxn, prior |-> Prior]
  /\ UNCHANGED botVars

InsertOf(inputs) ==
  \E in \in inputs, fault \in {0, 2, 3} :
    /\ RowCount(tables) < MaxRows
    /\ \E out \in {insert(Current, in[1], in[2], fault)} :
         Ended("insert", in[1], in[2], <<>>, out)
    /\ UNCHANGED <<descr, nInit>>

FindOf(inputs) ==
  \E in \in inputs, fault \in {0, 1} :
    /\ \E out \in {find(Current, in[1], in[2], fault)} :
         Ended("find", in[1], in[2], <<>>, out)
    /\ UNCHANGED <<descr, nInit>>

FindOneOf(inputs) ==
  \E in \in inputs, fault \in {0, 1} :
    /\ \E out \in {findOne(Current, in[1], in[2], fault)} :
         Ended("findOne", in[1], in[2], <<>>, out)
    /\ UNCHANGED <<descr, nInit>>

UpdateOf(inputs) ==
  \E in \in inputs, fault \in {0, 2, 3} :
    /\ \E out \in {update(Current, in[1], in[2], in[3], fault)} :
         Ended("update", in[1], in[2], in[3], out)
    /\ UNCHANGED <<descr, nInit>>

Insert == InsertOf(InsertInputs)
Find == FindOf(FindInputs)
FindOne == FindOneOf(FindInputs)
Update == UpdateOf(UpdateInputs)

AtomicQuery ==
  \E queries \in BatchInputs, globalQuery \in BOOLEAN, fault \in 0..(MaxBatch + 2) :
    /\ fault <= Len(queries) + 2
    /\ RowCount(tables) + Len(queries) <= MaxRows
    /\ \E out \in {atomicQuery(Current, queries, globalQuery, fault)} :
         Ended("atomicQuery", "", queries, globalQuery, out)
    /\ UNCHANGED <<descr, nInit>>

InitTables ==
  \E fault \in 0..(Len(descr) + 2) :
    /\ nInit < MaxInit
    /\ \E out \in {initTables(Current, descr, fault)} :
         /\ Ended("initTables", "", descr, <<>>, [out EXCEPT !.ret = Num(@.failedAt)])
         /\ descr' = out.ret.schema
    /\ nInit' = nInit + 1

\* new SqliteDatabase(filename) on a new file: no table, no transaction;
\* the caller holds a schema descriptor to call initTables with
Init ==
  /\ tables = EmptyDb
  /\ committed = EmptyDb
  /\ inTxn = FALSE
  /\ descr \in Schemas
  /\ nInit = 0
  /\ call = Idle
  /\ NoBot

Next == Insert \/ Find \/ FindOne \/ Update \/ AtomicQuery \/ InitTables

Spec == Init /\ [][Next]_vars

-----------------------------------------------------------------------------
(* The one-column database: new SqliteDatabase(filename, schema) with the  *)
(* schema of one table "t" of one column "f" has run initTables in the     *)
(* constructor.                                                            *)

SchemaOne == <<TableDef("t", <<Column("f", "TEXT")>>)>>

Constructed(schema) == initTables(Db(EmptyDb, EmptyDb, FALSE), schema, 0)

CrudInit ==
  /\ \E out \in {Constructed(SchemaOne)} :
       /\ tables = out.tables
       /\ committed = out.committed
       /\ inTxn = out.inTxn
       /\ descr = out.ret.schema
  /\ nInit = 1
  /\ call = Idle
  /\ NoBot

CrudInsert == InsertOf(CrudInsertInputs)
CrudFind == FindOf(CrudFindInputs)
CrudFindOne == FindOneOf(CrudFindInputs)
CrudUpdate == UpdateOf(CrudUpdateInputs)

CrudNext == CrudInsert \/ CrudFind \/ CrudFindOne \/ CrudUpdate

SpecCrud == CrudInit /\ [][CrudNext]_vars

-----------------------------------------------------------------------------
(* The statement builders on their own: the inputs are drawn from the      *)
(* mappings of at most MaxKeys properties, flat or nested one level.       *)

Keys == {"a", "b", "c"}
Leaves == {Num(1), Str(<<"'">>)}

\* the flat mappings of n properties
FlatOf(n) ==
  {m \in [1..n -> Keys \X Leaves] : \A i, j \in 1..n : i # j => m[i][1] # m[j][1]}

FlatMaps == UNION {FlatOf(n) : n \in 0..MaxKeys}

\* {k: {...}} and {k: {...}, k2: leaf}
NestedMaps ==
  {<< <<k, Obj(m)>> >> : k \in {"a"}, m \in FlatOf(1)}
    \cup {<< <<"a", Obj(<< <<"b", Num(1)>> >>)>>, <<"a_b", Str(<<"'">>)>> >>,
          << <<"c", Num(1)>>, <<"a", Obj(<< <<"b", Num(1)>>, <<"c", Null>> >>)>> >>}

Mappings == FlatMaps \cup NestedMaps

\* the arguments of one call of a builder, not made yet
Input(table, a1, a2) == [Idle EXCEPT !.op = "input", !.table = table, !.a1 = a1, !.a2 = a2]

Built(op, ret) ==
  /\ call.op = "input"
  /\ call' = [call EXCEPT !.op = op, !.ret = ret]
  /\ UNCHANGED <<tables, committed, inTxn, descr, nInit>>
  /\ UNCHANGED botVars

\* buildSelectQuery(table, a1)
BuildSelect ==
  Built("buildSelectQuery", buildSelectQuery(call.table, call.a1))

\* lines 282-288 of update(table, a1, a2): the statement and the values
\* bound to it
BuildUpdate ==
  /\ call.a1 # <<>>
  /\ Built("update", [query |-> buildUpdateQuery(call.table, call.a1, call.a2),
                      values |-> updateValues(call.a1, call.a2)])

\* lines 233-236 of insert(table, a1): the statement and the values bound
\* to it
BuildInsert ==
  Built("insert", [query |-> buildInsertQuery(call.table, call.a1),
                   values |-> bindValues(call.a1)])

\* flattenObj(a1)
BuildFlatten ==
  Built("flattenObj", flatten(call.a1))

BuildInit ==
  /\ tables = EmptyDb
  /\ committed = EmptyDb
  /\ inTxn = FALSE
  /\ descr = SchemaOne
  /\ nInit = 0
  /\ \E a1 \in Mappings, a2 \in Mappings : call = Input("table", a1, a2)
  /\ NoBot

BuildNext == BuildSelect \/ BuildUpdate \/ BuildInsert \/ BuildFlatten

SpecBuild == BuildInit /\ [][BuildNext]_vars

-----------------------------------------------------------------------------
(* Properties of the builders (SpecBuild) *)

\* the placeholders of a statement, as positions among its pieces
Placeholders(sql) == {i \in 1..Len(sql) : sql[i] \in {"?", " = ?"}}

RECURSIVE Terms(_, _)
\* "k1" = ?<joiner>"k2" = ? ... for the properties of a flat mapping
Terms(flat, joiner) ==
  IF flat = <<>> THEN ""
  ELSE "\"" \o flat[1][1] \o "\" = ?"
       \o (IF Len(flat) = 1 THEN "" ELSE joiner \o Terms(Tail(flat), joiner))

\* C2: update binds the flattened values' values followed by the flattened
\* filter's values (each as quote renders it), in that order, as many as the
\* statement has placeholders, also when values and filter share a field.
C2_UpdateBindsValuesThenFilter ==
  call.op = "update" =>
    /\ call.ret.values =
         quoteAll(ObjectValues(flatten(call.a1)) \o ObjectValues(flatten(call.a2)), FALSE)
    /\ Len(call.ret.values) = Cardinality(Placeholders(call.ret.query))

\* C5: with an empty filter buildUpdateQuery emits the SET clause only:
\* nothing stands between the last placeholder and the semicolon.
C5_UpdateEmptyFilterSetOnly ==
  (call.op = "update" /\ flatten(call.a2) = <<>>) =>
    Text(call.ret.query) =
      "UPDATE \"" \o call.table \o "\" SET " \o Terms(flatten(call.a1), ", ") \o ";"

RECURSIVE Columns(_)
Columns(flat) ==
  IF flat = <<>> THEN ""
  ELSE "\"" \o flat[1][1] \o "\""
       \o (IF Len(flat) = 1 THEN "" ELSE ", " \o Columns(Tail(flat)))

\* ?, ?, ... with n placeholders
RECURSIVE Marks(_)
Marks(n) == IF n = 0 THEN "" ELSE "?" \o (IF n = 1 THEN "" ELSE ", " \o Marks(n - 1))

\* C11: buildInsertQuery emits INSERT INTO "table" (cols) VALUES (marks);
\* with the double-quoted flattened field names in the flattened mapping's
\* order and one ? per flattened field, and insert binds as many values as
\* the statement has placeholders; {a: 1, b: "'"} gives
\* INSERT INTO "table" ("a", "b") VALUES (?, ?);
C11_InsertQueryShape ==
  call.op = "insert" =>
    LET flat == flatten(call.a1)
        text == Text(call.ret.query)
    IN /\ text = "INSERT INTO \"" \o call.table \o "\" (" \o Columns(flat)
                 \o ") VALUES (" \o Marks(Len(flat)) \o ");"
       /\ Cardinality(Placeholders(call.ret.query)) = Len(flat)
       /\ Len(call.ret.values) = Cardinality(Placeholders(call.ret.query))
       /\ call.a1 = << <<"a", Num(1)>>, <<"b", Str(<<"'">>)>> >> =>
            text = "INSERT INTO \"table\" (\"a\", \"b\") VALUES (?, ?);"

\* an insert of a nested mapping of three leaves
C11_Witness ==
  /\ call.op = "insert"
  /\ \E i \in 1..Len(call.a1) : call.a1[i][2].t = "obj"
  /\ Text(call.ret.query) =
       "INSERT INTO \"table\" (\"c\", \"a_b\", \"a_c\") VALUES (?, ?, ?);"
  /\ Len(call.ret.values) = 3

\* the pieces of a statement before / after its WHERE keyword
BeforeWhere(sql) == SubSeq(sql, 1, IndexOf(sql, " WHERE ") - 1)
AfterWhere(sql) == SubSeq(sql, IndexOf(sql, " WHERE ") + 1, Len(sql))

ValueOf(flat, k) == flat[CHOOSE i \in 1..Len(flat) : flat[i][1] = k][2]

\* the leaves of a nested mapping in iteration order, each with its
\* ancestor keys joined by _
RECURSIVE LeafPaths(_, _)
LeafPaths(obj, parent) ==
  IF obj = <<>> THEN <<>>
  ELSE LET path == IF parent = "" THEN obj[1][1] ELSE parent \o "_" \o obj[1][1]
       IN (IF obj[1][2].t = "obj" THEN LeafPaths(obj[1][2].m, path)
           ELSE << <<path, obj[1][2]>> >>)
          \o LeafPaths(Tail(obj), parent)

\* C13: flattening a flattened mapping gives it back with the same key
\* order; every key of the result is the ancestor keys of a leaf joined by
\* _, and every leaf of the mapping is found under that key with its value.
C13_FlattenIdempotentKeepsLeaves ==
  call.op = "flattenObj" =>
    LET leaves == LeafPaths(call.a1, "")
    IN /\ flatten(call.ret) = call.ret
       /\ \A i \in 1..Len(call.ret) :
            \E j \in 1..Len(leaves) : leaves[j][1] = call.ret[i][1]
       /\ \A j \in 1..Len(leaves) :
            /\ HasKey(call.ret, leaves[j][1])
            /\ ValueOf(call.ret, leaves[j][1]) = leaves[j][2]

-----------------------------------------------------------------------------
(* Properties of the transactions (Spec) *)

\* the row an insert of params is to store in a table
WholeRow(tab, params) ==
  LET flat == flatten(params)
  IN [c \in Range(tab.cols) |->
        IF HasKey(flat, c) THEN quote(ValueOf(flat, c), FALSE) ELSE Null]

\* the tables with the whole effect of insert(table, params)
WholeInsert(pre, table, params) ==
  [pre EXCEPT ![table].rows = Append(@, WholeRow(pre[table], params))]

\* the tables with the whole effect of update(table, valueParams, whereParams)
WholeUpdate(pre, table, valueParams, whereParams) ==
  LET set == flatten(valueParams)
      filter == flatten(whereParams)
      selected(row) ==
        \A i \in 1..Len(filter) : SqlEq(row[filter[i][1]], quote(filter[i][2], FALSE))
  IN [pre EXCEPT ![table].rows =
        [i \in 1..Len(@) |->
           IF selected(@[i])
           THEN [c \in DOMAIN @[i] |->
                   IF HasKey(set, c) THEN quote(ValueOf(set, c), FALSE) ELSE @[i][c]]
           ELSE @[i]]]

C3_NoPartialWrite ==
  /\ call.op = "insert" =>
       \/ tables = call.pre
       \/ tables = WholeInsert(call.pre, call.table, call.a1)
  /\ call.op = "update" =>
       \/ tables = call.pre
       \/ tables = WholeUpdate(call.pre, call.table, call.a1, call.a2)

\* an insert of a row of two fields whose statement the store failed
C3_Witness ==
  /\ call.op = "insert"
  /\ call.threw /\ call.runs = 1
  /\ Len(flatten(call.a1)) = 2
  /\ tables = call.pre
  /\ inTxn

\* C4: when a CREATE TABLE of initTables fails, the transaction is aborted
\* before initTables ends and no table the call created exists.
C4_InitTablesAllOrNothing ==
  (call.op = "initTables" /\ call.threw /\ call.ret.n > 0) =>
    /\ ~inTxn
    /\ \A n \in TableNames : tables[n].exists => call.pre[n].exists

C18_NoTransactionLeftOpen ==
  call.op \in {"insert", "update", "atomicQuery", "initTables"} => ~inTxn

-----------------------------------------------------------------------------
(* Properties of the one-column database (SpecCrud) *)

\* the rows of the table that a filter selects, as find is to return them
Selected(tabs, table, params) ==
  LET rows == tabs[table].rows
      filter == flatten(params)
  IN {i \in 1..Len(rows) :
        \A j \in 1..Len(filter) : SqlEq(rows[i][filter[j][1]], quote(filter[j][2], FALSE))}

RECURSIVE Decoded(_, _, _)
\* the rows of S from row i on, in table order, strings unescaped
Decoded(rows, S, i) ==
  IF i > Len(rows) THEN <<>>
  ELSE (IF i \in S
        THEN <<[c \in DOMAIN rows[i] |->
                  IF rows[i][c].t = "str" THEN Str(unescape(rows[i][c].s)) ELSE rows[i][c]]>>
        ELSE <<>>) \o Decoded(rows, S, i + 1)

\* C6: on an empty one-column table, insert({f: v}) followed by
\* findOne({f: v}) returns a row whose f is v, for v a string, a number or null.
C6_InsertFindOneRoundTrip ==
  (/\ call.op = "findOne" /\ ~call.threw
   /\ call.prior.op = "insert" /\ call.prior.fresh
   /\ call.prior.table = call.table /\ call.prior.a1 = call.a1
   /\ call.a1[1][2].t \in {"str", "num", "null"})
  => (call.ret # Undefined /\ call.ret[call.a1[1][1]] = call.a1[1][2])

C8_FindAndFindOneAgree ==
  LET S == Selected(call.pre, call.table, call.a1)
      all == Decoded(call.pre[call.table].rows, S, 1)
  IN /\ (call.op = "find" /\ ~call.threw) =>
          /\ call.ret = all
          /\ tables = call.pre /\ inTxn = call.preTxn
     /\ (call.op = "findOne" /\ ~call.threw) =>
          /\ (call.ret = Undefined) <=> (all = <<>>)
          /\ call.ret # Undefined => \E i \in 1..Len(all) : all[i] = call.ret
          /\ tables = call.pre /\ inTxn = call.preTxn

\* a findOne that returned a row which is not the first of its table
C8_Witness ==
  /\ call.op = "findOne" /\ ~call.threw
  /\ call.ret # Undefined
  /\ Len(tables["t"].rows) = 2
  /\ ~(1 \in Selected(tables, "t", call.a1))

-----------------------------------------------------------------------------
(* The bot's persistence (mfwbotcrashes.js) over its lokijs database.      *)
(* A collection is the sequence of its documents in insertion order;       *)
(* findOne gives the first document that matches, and the documents it     *)
(* gives are the stored objects themselves, so an assignment to a property *)
(* of one changes the collection. A channel id is a TLA+ string; a message *)
(* id is Str(<<id>>), the empty string Str(<<>>). saveDatabase serialises  *)
(* the collections when it is called and calls back later; saves are taken *)
(* to succeed. A function value is a record [t |-> "fn", k |-> its place   *)
(* in the source, ... the variables it closes over].                       *)

\* most questions saved, in the two collections together, by calls of the
\* persistence on its own
MaxQuestions == 2
\* most questions saved, in the two collections together, by the bot
MaxDocs == 4
\* most callbacks not run yet after a call of the persistence on its own
MaxPending == 1
\* most callbacks not run yet when the bot is sent a message, is ready or
\* fires a cron job
MaxWaiting == 0

Channels == {"c1", "c2"}

reactCount == 3

\* the function at place k of the source, closing over callback cb and
\* over the variables env
Closure(k, cb, env) == [t |-> "fn", k |-> k, cb |-> cb, env |-> env]

\* a function that closes over nothing
Fn(k) == Closure(k, Undefined, <<>>)

\* ToBoolean
Truthy(v) ==
  CASE v.t \in {"null", "undefined"} -> FALSE
    [] v.t = "bool" -> v.b
    [] v.t = "num" -> v.n # 0
    [] v.t = "str" -> v.s # <<>>
    [] OTHER -> TRUE

\* the document getChannelInfo inserts for a new channel
NewChannel(channelId) ==
  [channel |-> channelId, reactCount |-> reactCount,
   downvoteId |-> "%E2%AC%87", upvoteId |-> "%E2%AC%86",
   questionOfTheDay |-> Str(<<>>),
   nextQuestionToPostId |-> 1, nextQuestionToSaveId |-> 1,
   nextShallowQuestionToPostId |-> 1, nextShallowQuestionToSaveId |-> 1,
   isQuestionShallow |-> FALSE, asked |-> Undefined]

\* collection.findOne({'channel': channelId}): the place of the first
\* document of the channel, 0 when there is none
FindChannel(coll, channelId) ==
  IF \E i \in 1..Len(coll) : coll[i].channel = channelId
  THEN CHOOSE i \in 1..Len(coll) :
         coll[i].channel = channelId /\ \A j \in 1..(i - 1) : coll[j].channel # channelId
  ELSE 0

\* questions.findOne({'channel': channelId, 'questionId': id})
FindQuestion(coll, channelId, id) ==
  IF \E i \in 1..Len(coll) : coll[i].channel = channelId /\ coll[i].questionId = id
  THEN CHOOSE i \in 1..Len(coll) :
         /\ coll[i].channel = channelId /\ coll[i].questionId = id
         /\ \A j \in 1..(i - 1) : ~(coll[j].channel = channelId /\ coll[j].questionId = id)
  ELSE 0

\* the state a handler runs on: the collections, the file, the callbacks
\* not run yet, the cron jobs, the messages sent, what the handler has done
\* so far (log) and whether an exception is leaving it
Running(lk, dk, pend, jb, snt) ==
  [loki |-> lk, disk |-> dk, pending |-> pend, jobs |-> jb, sent |-> snt,
   log |-> <<>>, threw |-> FALSE]

\* a TypeError (a property of null read, a call of undefined) leaves the
\* handler
TypeError(st) == [st EXCEPT !.threw = TRUE]

Logged(st, entry) == [st EXCEPT !.log = Append(@, entry)]

\* a callback to run later with these arguments; settled: it is the
\* reaction of a promise, so that an exception in it rejects a promise
Later(st, cb, args, settled) ==
  [st EXCEPT !.pending = Append(@, [cb |-> cb, args |-> args, settled |-> settled])]

\* db.saveDatabase(callback)
saveDatabase(st, callback) ==
  LET st1 == [st EXCEPT !.disk = st.loki]
  IN IF callback = Undefined THEN st1 ELSE Later(st1, callback, <<>>, FALSE)

RECURSIVE Invoke(_, _, _)

\* addQuestion without the increment of the next id to save
addQuestionSameId(st, channelId, question, author, shallow, callback) ==
  LET i == FindChannel(st.loki.channelInfo, channelId)
  IN IF i = 0 THEN TypeError(st)
     ELSE LET thisChannelInfo == st.loki.channelInfo[i]
              doc == [channel |-> channelId, question |-> question, author |-> author,
                      questionId |-> IF Truthy(shallow)
                                     THEN thisChannelInfo.nextShallowQuestionToSaveId
                                     ELSE thisChannelInfo.nextQuestionToSaveId]
              st1 == IF Truthy(shallow)
                     THEN [st EXCEPT !.loki.shallowQuestions = Append(@, doc)]
                     ELSE [st EXCEPT !.loki.questions = Append(@, doc)]
          IN saveDatabase(st1, Closure("addQuestion.saved", callback, <<>>))

addQuestion(st, channelId, question, author, shallow, callback) ==
  LET i == FindChannel(st.loki.channelInfo, channelId)
  IN IF i = 0 THEN TypeError(st)
     ELSE LET thisChannelInfo == st.loki.channelInfo[i]
              doc == [channel |-> channelId, question |-> question, author |-> author,
                      questionId |-> IF Truthy(shallow)
                                     THEN thisChannelInfo.nextShallowQuestionToSaveId
                                     ELSE thisChannelInfo.nextQuestionToSaveId]
              st1 == IF Truthy(shallow)
                     THEN [st EXCEPT !.loki.channelInfo[i].nextShallowQuestionToSaveId = @ + 1,
                                     !.loki.shallowQuestions = Append(@, doc)]
                     ELSE [st EXCEPT !.loki.channelInfo[i].nextQuestionToSaveId = @ + 1,
                                     !.loki.questions = Append(@, doc)]
          IN saveDatabase(st1, Closure("addQuestion.saved", callback, <<>>))

\* the channelInfo document of a channel, as callbacks are given it
ChannelDoc(channelId) == [t |-> "channelInfo", channel |-> channelId]

\* getChannelInfo that creates the record whatever isCheck is
getChannelInfoAlwaysCreates(st, channelId, isCheck, callback) ==
  LET i == FindChannel(st.loki.channelInfo, channelId)
  IN IF i = 0
     THEN LET st1 == [st EXCEPT !.loki.channelInfo = Append(@, NewChannel(channelId))]
          IN addQuestion(st1, channelId, "aSimpleQ1", "<3", Bool(FALSE),
                         Closure("getChannelInfo.seeded", callback, [channel |-> channelId]))
     ELSE Invoke(callback, <<ChannelDoc(channelId), Bool(FALSE)>>, st)

getChannelInfo(st, channelId, isCheck, callback) ==
  LET i == FindChannel(st.loki.channelInfo, channelId)
  IN IF i = 0
     THEN IF Truthy(isCheck)
          THEN Invoke(callback, <<Null>>, st)
          ELSE LET st1 == [st EXCEPT !.loki.channelInfo = Append(@, NewChannel(channelId))]
               IN addQuestion(st1, channelId, "aSimpleQ1", "<3", Bool(FALSE),
                              Closure("getChannelInfo.seeded", callback, [channel |-> channelId]))
     ELSE Invoke(callback, <<ChannelDoc(channelId), Bool(FALSE)>>, st)

flipShallow(st, channelId) ==
  LET i == FindChannel(st.loki.channelInfo, channelId)
  IN IF i = 0 THEN TypeError(st)
     ELSE saveDatabase([st EXCEPT !.loki.channelInfo[i].isQuestionShallow = ~@], Undefined)

\* getNextQuestion with the pointer moved whatever check is
getNextQuestionIgnoresCheck(st, channelId, check, callback, shouldFlip) ==
  LET i == FindChannel(st.loki.channelInfo, channelId)
  IN IF i = 0 THEN TypeError(st)
     ELSE LET thisChannelInfo == st.loki.channelInfo[i]
              shallow == IF Truthy(shouldFlip) THEN ~thisChannelInfo.isQuestionShallow
                         ELSE thisChannelInfo.isQuestionShallow
              questions == IF shallow THEN st.loki.shallowQuestions ELSE st.loki.questions
              q == FindQuestion(questions, channelId,
                                IF shallow THEN thisChannelInfo.nextShallowQuestionToPostId
                                ELSE thisChannelInfo.nextQuestionToPostId)
              \* line 107, with the question found and the id looked for
              st0 == Logged(st, [k |-> "getNextQuestion", channel |-> channelId,
                                 question |-> IF q # 0 THEN questions[q] ELSE Null,
                                 shallow |-> shallow,
                                 toPost |-> IF shallow
                                            THEN thisChannelInfo.nextShallowQuestionToPostId
                                            ELSE thisChannelInfo.nextQuestionToPostId])
              st1 == IF ~Truthy(check) /\ Truthy(shouldFlip)
                     THEN flipShallow(st0, channelId) ELSE st0
          IN IF q # 0
             THEN LET st2 == IF shallow
                             THEN [st1 EXCEPT !.loki.channelInfo[i].nextShallowQuestionToPostId = @ + 1]
                             ELSE [st1 EXCEPT !.loki.channelInfo[i].nextQuestionToPostId = @ + 1]
                  IN Invoke(callback, <<questions[q], Bool(shallow)>>, st2)
             ELSE Invoke(callback, <<Null>>, st1)

getNextQuestion(st, channelId, check, callback, shouldFlip) ==
  LET i == FindChannel(st.loki.channelInfo, channelId)
  IN IF i = 0 THEN TypeError(st)
     ELSE LET thisChannelInfo == st.loki.channelInfo[i]
              shallow == IF Truthy(shouldFlip) THEN ~thisChannelInfo.isQuestionShallow
                         ELSE thisChannelInfo.isQuestionShallow
              questions == IF shallow THEN st.loki.shallowQuestions ELSE st.loki.questions
              q == FindQuestion(questions, channelId,
                                IF shallow THEN thisChannelInfo.nextShallowQuestionToPostId
                                ELSE thisChannelInfo.nextQuestionToPostId)
              \* line 107, with the question found and the id looked for
              st0 == Logged(st, [k |-> "getNextQuestion", channel |-> channelId,
                                 question |-> IF q # 0 THEN questions[q] ELSE Null,
                                 shallow |-> shallow,
                                 toPost |-> IF shallow
                                            THEN thisChannelInfo.nextShallowQuestionToPostId
                                            ELSE thisChannelInfo.nextQuestionToPostId])
              st1 == IF ~Truthy(check) /\ Truthy(shouldFlip)
                     THEN flipShallow(st0, channelId) ELSE st0
          IN IF q # 0
             THEN LET st2 == IF Truthy(check) THEN st1
                             ELSE IF shallow
                             THEN [st1 EXCEPT !.loki.channelInfo[i].nextShallowQuestionToPostId = @ + 1]
                             ELSE [st1 EXCEPT !.loki.channelInfo[i].nextQuestionToPostId = @ + 1]
                  IN Invoke(callback, <<questions[q], Bool(shallow)>>, st2)
             ELSE Invoke(callback, <<Null>>, st1)

\* the questionOfTheDay of a channel that is known
getQuestionMessageId(st, channelId) ==
  st.loki.channelInfo[FindChannel(st.loki.channelInfo, channelId)].questionOfTheDay

setQuestionMessageId(st, channelId, messageId, callback) ==
  LET i == FindChannel(st.loki.channelInfo, channelId)
  IN IF i = 0 THEN TypeError(st)
     ELSE saveDatabase([st EXCEPT !.loki.channelInfo[i].questionOfTheDay = messageId],
                       Closure("setQuestionMessageId.saved", callback, [messageId |-> messageId]))

\* collection.findOne({'user': userId})
FindUser(coll, userId) ==
  IF \E i \in 1..Len(coll) : coll[i].user = userId
  THEN CHOOSE i \in 1..Len(coll) : coll[i].user = userId /\ \A j \in 1..(i - 1) : coll[j].user # userId
  ELSE 0

UserDoc(userId) == [t |-> "userInfo", user |-> userId]

getUserInfo(st, userId, callback) ==
  IF FindUser(st.loki.userInfo, userId) # 0
  THEN Invoke(callback, <<UserDoc(userId), Bool(TRUE)>>, st)
  ELSE Invoke(callback, <<UserDoc(userId), Bool(FALSE)>>,
              [st EXCEPT !.loki.userInfo = Append(@, [user |-> userId, knowsSecret |-> FALSE])])

getAllChannels(st) ==
  [i \in 1..Len(st.loki.channelInfo) |-> st.loki.channelInfo[i].channel]

\* of a channel that is known
hasDailyQuestion(st, channelId) == getQuestionMessageId(st, channelId) # Null

getAsked(st, channelId) ==
  st.loki.channelInfo[FindChannel(st.loki.channelInfo, channelId)].asked

setAsked(st, channelId, value) ==
  LET i == FindChannel(st.loki.channelInfo, channelId)
  IN IF i = 0 THEN TypeError(st)
     ELSE saveDatabase([st EXCEPT !.loki.channelInfo[i].asked = value], Undefined)

-----------------------------------------------------------------------------
(* The bot (index.js). A message is a record of its id, channel, author    *)
(* and content; the bot is taken to be a member of every channel it is     *)
(* told of, so that bot.channels.get(id) gives the channel. Pins, typing   *)
(* marks and the bot's own reactions live at Discord and are read nowhere  *)
(* in the program: they are left out.                                      *)

\* most messages the bot sends
MaxSent == 3

BotUser == "bot"

MessageId(n) == Str(<<"m", n>>)

\* channel.send(content).then(onSent): the message exists, and onSent runs,
\* when the send has completed
send(st, channel, content, onSent) ==
  Later(Logged(st, [k |-> "send", channel |-> channel, content |-> content]),
        Closure("send.done", onSent, [channel |-> channel, content |-> content]),
        <<>>, TRUE)

postNewMessage(st, channel) ==
  getChannelInfo(Logged(st, [k |-> "postNewMessage", channel |-> channel]),
                 channel, Bool(FALSE),
                 Closure("postNewMessage.info", Undefined, [channel |-> channel]))

handleReaction(st, messageReaction) ==
  getChannelInfo(st, messageReaction.message.channel, Bool(TRUE),
                 Closure("handleReaction.info", Undefined,
                         [messageReaction |-> messageReaction]))

\* message.reactions.reduce(...) of lines 55-62
RECURSIVE Diff(_, _, _)
Diff(reactions, channelInfo, val) ==
  IF reactions = <<>> THEN val
  ELSE Diff(Tail(reactions), channelInfo,
            IF reactions[1].emoji = channelInfo.upvoteId THEN val - reactions[1].count
            ELSE IF reactions[1].emoji = channelInfo.downvoteId THEN val + reactions[1].count
            ELSE val)

\* lines 48-68 without the comparison with the recorded question message
handleReactionInfoAnyMessage(st, messageReaction, channelInfo) ==
  IF channelInfo = Null THEN st
  ELSE LET message == messageReaction.message
           channelId == message.channel
           info == st.loki.channelInfo[FindChannel(st.loki.channelInfo, channelId)]
       IN IF message.author = BotUser
          THEN IF Truthy(getAsked(st, channelId))
               THEN IF /\ messageReaction.emoji = info.upvoteId
                       /\ messageReaction.count = info.reactCount + 1
                    THEN postNewMessage(st, channelId)
                    ELSE st
               ELSE IF Diff(message.reactions, info, 0) = info.reactCount
                    THEN postNewMessage(st, channelId)
                    ELSE st
          ELSE st

\* lines 48-68
handleReactionInfo(st, messageReaction, channelInfo) ==
  IF channelInfo = Null THEN st
  ELSE LET message == messageReaction.message
           channelId == message.channel
           info == st.loki.channelInfo[FindChannel(st.loki.channelInfo, channelId)]
       IN IF message.author = BotUser /\ getQuestionMessageId(st, channelId) = message.id
          THEN IF Truthy(getAsked(st, channelId))
               THEN IF /\ messageReaction.emoji = info.upvoteId
                       /\ messageReaction.count = info.reactCount + 1
                    THEN postNewMessage(st, channelId)
                    ELSE st
               ELSE IF Diff(message.reactions, info, 0) = info.reactCount
                    THEN postNewMessage(st, channelId)
                    ELSE st
          ELSE st

\* the for loop of lines 86-88 over the channels from place c on
RECURSIVE AddToChannels(_, _, _, _, _)
AddToChannels(st, channels, c, text, author) ==
  IF c > Len(channels) \/ st.threw THEN st
  ELSE AddToChannels(addQuestion(st, channels[c], text, author, Fn("noop"), Undefined),
                     channels, c + 1, text, author)

\* the while loop of lines 83-90 over the quoted strings of the content
RECURSIVE SaveQuoted(_, _, _)
SaveQuoted(st, quoted, author) ==
  IF quoted = <<>> \/ st.threw THEN st
  ELSE SaveQuoted(AddToChannels(st, getAllChannels(st), 1, quoted[1], author),
                  Tail(quoted), author)

\* the for loop of lines 112-122; channel is the loop variable of lines
\* 86-88, left at the last key of channels
RECURSIVE TellChannels(_, _, _, _)
TellChannels(st, channels, toCheck, channel) ==
  IF toCheck > Len(channels) \/ st.threw THEN st
  ELSE TellChannels(
         IF ~hasDailyQuestion(st, channels[toCheck])
         THEN send(st, channels[channel], <<"aNewQ">>,
                   Closure("message.aNewQSent", Undefined, [channel |-> channels[channel]]))
         ELSE st,
         channels, toCheck + 1, channel)

\* lines 80-123: the callback of getUserInfo
messageUserInfo(st, message, userInfo, wasThere) ==
  LET channels == getAllChannels(st)
      found == Len(message.quoted)
      st1 == SaveQuoted(st, message.quoted, message.author)
      user == st.loki.userInfo[FindUser(st.loki.userInfo, userInfo.user)]
  IN IF st1.threw THEN st1
     ELSE IF found = 0
     THEN IF ~Truthy(wasThere) THEN send(st1, message.channel, <<"greetingsUser">>, Undefined)
          ELSE IF ~user.knowsSecret
          THEN send(st1, message.channel, <<"sadbois">>,
                    Closure("message.sadboisSent", Undefined, [message |-> message]))
          ELSE send(st1, message.channel, <<"...  :3">>, Undefined)
     ELSE TellChannels(send(st1, message.channel,
                            IF found > 1 THEN <<"questRec2">> ELSE <<"questRec">>, Undefined),
                       channels, 1, Len(channels))

\* lines 72-136: the handler of 'message'
onMessage(st, message) ==
  IF message.byBot THEN st
  ELSE IF message.dm
  THEN Later(st, Closure("message.timer500", Undefined, [message |-> message]), <<>>, FALSE)
  ELSE IF message.content = <<"introduceYourself">>
  THEN send(st, message.channel, <<"dontPurge">>,
            Closure("message.dontPurgeSent", Undefined, [message |-> message]))
  ELSE st

\* the for loop of lines 29-32 over the channels from place c on
RECURSIVE TellWhatHappened(_, _, _)
TellWhatHappened(st, channels, c) ==
  IF c > Len(channels) THEN st
  ELSE TellWhatHappened(send(st, channels[c], <<"whatHappened">>, Undefined),
                        channels, c + 1)

\* lines 24-34: the handler of 'ready'
onReady(st) == Later(st, Fn("ready.readFile"), <<>>, FALSE)

\* the call cb(args...): each function of the two files that is passed as
\* a callback, by its place in the source
Invoke(cb, args, st) ==
  IF cb.t # "fn" THEN TypeError(st)
  ELSE CASE cb.k = "noop" -> st
         \* a callback of the caller of the persistence
         [] cb.k = "caller" -> Logged(st, [k |-> "callback", args |-> args])
         \* mfwbotcrashes.js 94-101
         [] cb.k = "addQuestion.saved" -> Invoke(cb.cb, <<>>, st)
         \* mfwbotcrashes.js 69-78
         [] cb.k = "getChannelInfo.seeded" ->
              saveDatabase(st, Closure("getChannelInfo.saved", cb.cb, cb.env))
         \* mfwbotcrashes.js 70-77
         [] cb.k = "getChannelInfo.saved" ->
              Invoke(cb.cb, <<ChannelDoc(cb.env.channel), Bool(TRUE)>>, st)
         \* mfwbotcrashes.js 132-139
         [] cb.k = "setQuestionMessageId.saved" ->
              Invoke(cb.cb, <<cb.env.messageId>>, st)
         \* the completion of channel.send
         [] cb.k = "send.done" ->
              LET message == [id |-> MessageId(Len(st.sent) + 1),
                              channel |-> cb.env.channel, author |-> BotUser,
                              byBot |-> TRUE, dm |-> FALSE,
                              content |-> cb.env.content, quoted |-> <<>>]
                  st1 == [st EXCEPT !.sent = Append(@, message)]
              IN IF cb.cb = Undefined THEN st1 ELSE Invoke(cb.cb, <<message>>, st1)
         \* index.js 139-167
         [] cb.k = "postNewMessage.info" ->
              LET st1 == IF Len(args) > 1 /\ Truthy(args[2])
                         THEN [st EXCEPT !.jobs =
                                 Append(@, [k |-> "cron.newChannel",
                                            channel |-> cb.env.channel])]
                         ELSE st
              IN getNextQuestion(st1, cb.env.channel,
                                 Closure("postNewMessage.question", Undefined, cb.env),
                                 Undefined, Undefined)
         \* index.js 152-166
         [] cb.k = "postNewMessage.question" ->
              IF args[1] = Null
              THEN send(st, cb.env.channel, <<"allOut">>, Fn("postNewMessage.allOutSent"))
              ELSE send(st, cb.env.channel, <<"Today's question is: ", args[1].question>>,
                        Fn("postNewMessage.questionSent"))
         \* index.js 154-156
         [] cb.k = "postNewMessage.allOutSent" ->
              setQuestionMessageId(st, args[1].channel, Null, Fn("noop"))
         \* index.js 158-164
         [] cb.k = "postNewMessage.questionSent" ->
              LET st1 == setQuestionMessageId(st, args[1].channel, args[1].id, Fn("noop"))
              IN IF st1.threw THEN st1 ELSE setAsked(st1, args[1].channel, Bool(FALSE))
         \* index.js 47-69
         [] cb.k = "handleReaction.info" ->
              handleReactionInfo(st, cb.env.messageReaction, args[1])
         \* index.js 76-127
         [] cb.k = "message.timer500" ->
              Later(st, Closure("message.timer2000", Undefined, cb.env), <<>>, FALSE)
         \* index.js 78-125
         [] cb.k = "message.timer2000" ->
              getUserInfo(st, cb.env.message.author,
                          Closure("message.userInfo", Undefined, cb.env))
         \* index.js 79-124
         [] cb.k = "message.userInfo" ->
              messageUserInfo(st, cb.env.message, args[1], args[2])
         \* index.js 95-102
         [] cb.k = "message.sadboisSent" ->
              Later(st, Closure("message.timer5000", Undefined, cb.env), <<>>, FALSE)
         \* index.js 97-101
         [] cb.k = "message.timer5000" ->
              LET st1 == send(st, cb.env.message.channel, <<"sadbois2">>, Undefined)
                  u == FindUser(st.loki.userInfo, cb.env.message.author)
              IN [st1 EXCEPT !.loki.userInfo[u].knowsSecret = TRUE]
         \* index.js 114-120
         [] cb.k = "message.aNewQSent" ->
              getChannelInfo(st, cb.env.channel, Bool(TRUE),
                             Closure("message.aNewQInfo", Undefined,
                                     [message |-> args[1], channel |-> cb.env.channel]))
         \* index.js 115-119
         [] cb.k = "message.aNewQInfo" ->
              IF args[1] = Null THEN TypeError(st)
              ELSE LET st1 == setQuestionMessageId(st, cb.env.message.channel,
                                                   cb.env.message.id, Fn("noop"))
                   IN IF st1.threw THEN st1 ELSE setAsked(st1, cb.env.channel, Bool(TRUE))
         \* index.js 26-33
         [] cb.k = "ready.readFile" -> TellWhatHappened(st, getAllChannels(st), 1)
         \* index.js 131-133
         [] cb.k = "message.dontPurgeSent" ->
              postNewMessage(st, cb.env.message.channel)

-----------------------------------------------------------------------------
(* Calls and events *)

Here == Running(loki, disk, pending, jobs, sent)

SendsUnderWay(pend) == Cardinality({i \in 1..Len(pend) : pend[i].cb.k = "send.done"})

\* the runs explored: at most MaxSent messages sent, MaxDocs questions saved
Within(out) ==
  /\ Len(out.sent) + SendsUnderWay(out.pending) <= MaxSent
  /\ Len(out.loki.questions) + Len(out.loki.shallowQuestions) <= MaxDocs

\* a call, a handler or a callback has run to its end; dies: by an
\* exception nothing catches, which ends the process
Happened(op, args, out, dies) ==
  /\ Within(out)
  /\ loki' = out.loki
  /\ disk' = out.disk
  /\ sent' = out.sent
  /\ pending' = IF dies THEN <<>> ELSE out.pending
  /\ jobs' = IF dies THEN <<>> ELSE out.jobs
  /\ alive' = ~dies
  /\ LET advanced == IF op = "reaction"
                         /\ \E i \in 1..Len(out.log) : out.log[i].k = "postNewMessage"
                      THEN {args.messageReaction.message.id} ELSE {}
     IN ev' = [op |-> op, args |-> args, log |-> out.log, threw |-> out.threw,
               once |-> ev.once \cup advanced,
               again |-> ev.again \cup (ev.once \cap advanced)]
  /\ UNCHANGED <<channelsCron, channelKey>>
  /\ UNCHANGED sqlVars

\* a callback not run yet runs: a save or a send has completed, a timer
\* has expired. An exception in the reaction of a promise rejects the
\* promise, which nothing handles: the process goes on or ends, by the
\* version of the runtime; any other exception ends the process.
RunPending ==
  \E i \in 1..Len(pending), dies \in BOOLEAN :
    LET task == pending[i]
        rest == [j \in 1..(Len(pending) - 1) |->
                   IF j < i THEN pending[j] ELSE pending[j + 1]]
    IN /\ alive
       /\ \E out \in {Invoke(task.cb, task.args, Running(loki, disk, rest, jobs, sent))} :
            /\ dies => out.threw
            /\ (out.threw /\ ~task.settled) => dies
            /\ Happened(task.cb.k, task, out, dies)

\* the state of the SqliteDatabase facade while the bot is looked at
NoSql ==
  /\ tables = EmptyDb
  /\ committed = EmptyDb
  /\ inTxn = FALSE
  /\ descr = SchemaOne
  /\ nInit = 0
  /\ call = Idle

-----------------------------------------------------------------------------
(* The persistence called on its own, by a caller that passes a function   *)
(* as callback and catches what a call throws.                             *)

\* at most MaxQuestions questions are saved and at most MaxPending
\* callbacks are not run yet
Saved(out) ==
  /\ Len(out.loki.questions) + Len(out.loki.shallowQuestions) <= MaxQuestions
  /\ Len(out.pending) <= MaxPending

GetChannelInfo ==
  \E channelId \in Channels, isCheck \in BOOLEAN :
    \E out \in {getChannelInfo(Here, channelId, Bool(isCheck), Fn("caller"))} :
      /\ Saved(out)
      /\ Happened("getChannelInfo",
                  [channelId |-> channelId, isCheck |-> isCheck, before |-> loki],
                  out, FALSE)

AddQuestion ==
  \E channelId \in Channels, shallow \in BOOLEAN :
    \E out \in {addQuestion(Here, channelId, "q", "u1", Bool(shallow), Fn("caller"))} :
      /\ Saved(out)
      /\ Happened("addQuestion", <<channelId, shallow>>, out, FALSE)

GetNextQuestion ==
  \E channelId \in Channels, check \in BOOLEAN, shouldFlip \in BOOLEAN :
    \E out \in {getNextQuestion(Here, channelId, Bool(check), Fn("caller"),
                                Bool(shouldFlip))} :
      /\ Saved(out)
      /\ Happened("getNextQuestion",
                  [channelId |-> channelId, check |-> check, shouldFlip |-> shouldFlip,
                   before |-> loki.channelInfo], out, FALSE)

\* init has called back on a database file that did not exist
PersInit ==
  /\ NoSql
  /\ loki = LokiEmpty
  /\ disk = LokiEmpty
  /\ pending = <<>>
  /\ jobs = <<>>
  /\ channelsCron = <<>>
  /\ channelKey = 0
  /\ sent = <<>>
  /\ alive = TRUE
  /\ ev = Quiet

PersNext == GetChannelInfo \/ AddQuestion \/ GetNextQuestion \/ RunPending

SpecPers == PersInit /\ [][PersNext]_vars

-----------------------------------------------------------------------------
(* The bot's events. The process starts on the database file an earlier    *)
(* run left (performDataUpgrade, line 41 of mfwbotcrashes.js, exists for   *)
(* such files): none, or one with one or two channels whose questions have *)
(* been posted.                                                            *)

\* lines 17-22: the scheduling loop over the channels of the database
Startup(lk) ==
  LET channels == [i \in 1..Len(lk.channelInfo) |-> lk.channelInfo[i].channel]
  IN [channelsCron |-> channels, channelKey |-> Len(channels),
      jobs |-> [i \in 1..Len(channels) |-> [k |-> "cron.startup", slot |-> i]]]

\* the question getChannelInfo saves for a new channel
Seed(channelId) ==
  [channel |-> channelId, question |-> "aSimpleQ1", author |-> "<3", questionId |-> 1]

\* a message of the bot
BotMessage(n, channelId, content) ==
  [id |-> MessageId(n), channel |-> channelId, author |-> BotUser, byBot |-> TRUE,
   dm |-> FALSE, content |-> content, quoted |-> <<>>]

\* a channel whose one question is posted as message 1
Posted(channelId, asked) ==
  [NewChannel(channelId) EXCEPT !.questionOfTheDay = MessageId(1),
                                !.nextQuestionToPostId = 2,
                                !.nextQuestionToSaveId = 2,
                                !.asked = asked]

\* a channel that was told it is out of questions
AllOut(channelId) ==
  [NewChannel(channelId) EXCEPT !.questionOfTheDay = Null,
                                !.nextQuestionToPostId = 2,
                                !.nextQuestionToSaveId = 2,
                                !.asked = Bool(FALSE)]

Loaded ==
  {[loki |-> LokiEmpty, sent |-> <<>>]}
    \cup {[loki |-> [LokiEmpty EXCEPT !.channelInfo = <<Posted("c1", asked)>>,
                                      !.questions = <<Seed("c1")>>],
           sent |-> <<BotMessage(1, "c1", <<"Today's question is: ", "aSimpleQ1">>)>>]
          : asked \in {Bool(TRUE), Bool(FALSE)}}
    \cup {[loki |-> [LokiEmpty EXCEPT !.channelInfo = <<Posted("c1", Bool(TRUE)), AllOut("c2")>>,
                                      !.questions = <<Seed("c1"), Seed("c2")>>],
           sent |-> <<BotMessage(1, "c1", <<"Today's question is: ", "aSimpleQ1">>)>>]}

\* messages of users: a direct message with its quoted strings, the
\* request to introduce the bot to a channel, anything else
Direct(quoted) ==
  [id |-> Str(<<"u", 0>>), channel |-> "dm", author |-> "u1", byBot |-> FALSE,
   dm |-> TRUE, content |-> <<"dm">>, quoted |-> quoted]

Chat(channelId, content) ==
  [id |-> Str(<<"u", 0>>), channel |-> channelId, author |-> "u1", byBot |-> FALSE,
   dm |-> FALSE, content |-> content, quoted |-> <<>>]

MessageInputs ==
  {Direct(<<>>), Direct(<<"q1">>), Direct(<<"q1", "q2">>)}
    \cup {Chat(c, <<"introduceYourself">>) : c \in Channels}
    \cup {Chat("c1", <<"hello">>), BotMessage(0, "c1", <<"introduceYourself">>)}

\* the messages a reaction is added to or removed from: the messages the
\* bot has sent, a message of a user, a message of the bot in a channel that
\* has no record, an earlier message of the bot in a channel that has one
ReactionTargets ==
  {sent[i] : i \in 1..Len(sent)}
    \cup {Chat("c1", <<"hello">>), BotMessage(0, "c3", <<"hello">>),
          BotMessage(0, "c1", <<"whatHappened">>)}

\* the counts of the upvotes and of the downvotes of the message
Votes == {<<reactCount + 1, 1>>, <<1, reactCount + 1>>}

Emojis == {"%E2%AC%86", "%E2%AC%87", "%F0%9F%91%8D"}

\* the cron job j fires
CronFire ==
  \E j \in 1..Len(jobs) :
    LET job == jobs[j]
        target == IF job.k = "cron.startup" THEN channelsCron[channelKey] ELSE job.channel
        scheduledFor == IF job.k = "cron.startup" THEN channelsCron[job.slot]
                        ELSE job.channel
    IN /\ alive
       /\ Len(pending) <= MaxWaiting
       /\ \E out \in {postNewMessage(Here, target)} :
            Happened("cron", [job |-> job, scheduledFor |-> scheduledFor], out, out.threw)

\* 'messageReactionAdd' or 'messageReactionRemove'
Reaction ==
  \E m \in ReactionTargets, emoji \in Emojis, votes \in Votes :
    LET up == votes[1]
        down == votes[2]
        messageReaction ==
          [message |-> [id |-> m.id, channel |-> m.channel, author |-> m.author,
                        reactions |-> <<[emoji |-> "%E2%AC%86", count |-> up],
                                        [emoji |-> "%E2%AC%87", count |-> down]>>],
           emoji |-> emoji,
           count |-> IF emoji = "%E2%AC%86" THEN up
                     ELSE IF emoji = "%E2%AC%87" THEN down ELSE 1]
    IN /\ alive
       /\ \E out \in {handleReaction(Here, messageReaction)} :
            Happened("reaction", [messageReaction |-> messageReaction,
                                  before |-> loki.channelInfo], out, out.threw)

\* 'message'
MessageOf(inputs) ==
  \E message \in inputs :
    /\ alive
    /\ Len(pending) <= MaxWaiting
    /\ \E out \in {onMessage(Here, message)} :
         Happened("message", message, out, out.threw)

Message == MessageOf(MessageInputs)

\* 'ready'
Ready ==
  /\ alive
  /\ Len(pending) <= MaxWaiting
  /\ \E out \in {onReady(Here)} : Happened("ready", <<>>, out, out.threw)

\* the process, ended by an exception, is started again: init loads the
\* database file
Restart ==
  /\ ~alive
  /\ \E s \in {Startup(disk)} :
       /\ jobs' = s.jobs
       /\ channelsCron' = s.channelsCron
       /\ channelKey' = s.channelKey
  /\ loki' = disk
  /\ pending' = <<>>
  /\ alive' = TRUE
  /\ ev' = [Quiet EXCEPT !.op = "start", !.once = ev.once, !.again = ev.again]
  /\ UNCHANGED <<disk, sent>>
  /\ UNCHANGED sqlVars

BotInit ==
  /\ NoSql
  /\ \E l \in Loaded :
       /\ loki = l.loki
       /\ disk = l.loki
       /\ sent = l.sent
       /\ \E s \in {Startup(l.loki)} :
            /\ jobs = s.jobs
            /\ channelsCron = s.channelsCron
            /\ channelKey = s.channelKey
  /\ pending = <<>>
  /\ alive = TRUE
  /\ ev = [Quiet EXCEPT !.op = "start"]

BotNext == CronFire \/ Message \/ Ready \/ RunPending \/ Restart

SpecBot == BotInit /\ [][BotNext]_vars

-----------------------------------------------------------------------------
(* The reactions, with the events that change what handleReaction reads:   *)
(* a direct message with one question, after which a channel without a     *)
(* question of the day is told of the new question and that notice becomes *)
(* its question message.                                                   *)

DirectMessage == MessageOf({Direct(<<"q1">>)})

ReactNext == Reaction \/ DirectMessage \/ RunPending \/ Restart

SpecReact == BotInit /\ [][ReactNext]_vars

-----------------------------------------------------------------------------
(* Properties of the persistence (SpecPers) *)

\* the places of a channel's documents in a collection
DocsOf(coll, channelId) == {j \in 1..Len(coll) : coll[j].channel = channelId}

\* the questionId values of a channel's documents are exactly 1..n and the
\* next id to save is n + 1
Dense(coll, channelId, nextToSave) ==
  LET docs == DocsOf(coll, channelId)
  IN /\ {coll[j].questionId : j \in docs} = 1..Cardinality(docs)
     /\ nextToSave = Cardinality(docs) + 1

\* C20: after any sequence of getChannelInfo and addQuestion calls, within
\* each channel and each collection the stored questionId values are exactly
\* 1..n, without duplicates or gaps, and the channel's next id to save of
\* that collection is n + 1.
C20_QuestionIdsDense ==
  \A i \in 1..Len(loki.channelInfo) :
    LET info == loki.channelInfo[i]
    IN /\ Dense(loki.questions, info.channel, info.nextQuestionToSaveId)
       /\ Dense(loki.shallowQuestions, info.channel, info.nextShallowQuestionToSaveId)

\* an addQuestion has given a channel its second question
C20_Witness ==
  /\ ev.op = "addQuestion" /\ ~ev.threw
  /\ \E c \in Channels : Cardinality(DocsOf(loki.questions, c)) = 2

-----------------------------------------------------------------------------
(* Properties of the bot (SpecBot) *)

\* the handler or callback that has just run called f
Called(f) == {i \in 1..Len(ev.log) : ev.log[i].k = f}

\* it sent this content to this channel
Sends(channelId, content) ==
  \E i \in Called("send") :
    ev.log[i].channel = channelId /\ ev.log[i].content = content

\* C14: every cron job registered at startup calls postNewMessage on the
\* channel it was scheduled for, so that each configured channel gets its
\* own post on a tick.
C14_CronPostsToItsChannel ==
  (ev.op = "cron" /\ ev.args.job.k = "cron.startup") =>
    \E i \in Called("postNewMessage") : ev.log[i].channel = ev.args.scheduledFor

\* C15: when postNewMessage asks for the next question, the call completes;
\* if the channel has a question not posted yet, that question is sent to
\* the channel and the channel's pointer moves past it, and when the send
\* completes the new message id is recorded as questionOfTheDay and asked is
\* false; if it has none, the all-out message is sent, and when that send
\* completes questionOfTheDay is null.
C15_PostNewMessageRotates ==
  /\ \A i \in Called("getNextQuestion") :
       LET asked == ev.log[i]
           info == loki.channelInfo[FindChannel(loki.channelInfo, asked.channel)]
       IN /\ ~ev.threw
          /\ IF asked.question # Null
             THEN /\ Sends(asked.channel, <<"Today's question is: ", asked.question.question>>)
                  /\ info.nextQuestionToPostId = asked.toPost + 1
             ELSE Sends(asked.channel, <<"allOut">>)
  /\ \A c \in Channels :
       LET i == FindChannel(loki.channelInfo, c)
       IN (ev.op = "send.done" /\ ev.args.cb.env.channel = c /\ i # 0) =>
            /\ ev.args.cb.env.content[1] = "Today's question is: " =>
                 /\ loki.channelInfo[i].questionOfTheDay = sent[Len(sent)].id
                 /\ loki.channelInfo[i].asked = Bool(FALSE)
            /\ ev.args.cb.env.content = <<"allOut">> =>
                 loki.channelInfo[i].questionOfTheDay = Null

\* the collection and the pointer postNewMessage's getNextQuestion reads
Queue(lk, info) == IF info.isQuestionShallow THEN lk.shallowQuestions ELSE lk.questions

NextToPost(info) ==
  IF info.isQuestionShallow THEN info.nextShallowQuestionToPostId
  ELSE info.nextQuestionToPostId

\* C16: once the handler of a direct message has gone through its quoted
\* strings, every known channel has, in the queue postNewMessage draws from,
\* each quoted string as a question of the sender that is still to be
\* posted.
C16_DirectMessageQueuesQuestion ==
  (ev.op = "message.timer2000" /\ ~ev.threw) =>
    \A c \in 1..Len(loki.channelInfo), n \in 1..Len(ev.args.cb.env.message.quoted) :
      LET info == loki.channelInfo[c]
          queue == Queue(loki, info)
      IN \E j \in 1..Len(queue) :
           /\ queue[j].channel = info.channel
           /\ queue[j].question = ev.args.cb.env.message.quoted[n]
           /\ queue[j].author = ev.args.cb.env.message.author
           /\ queue[j].questionId >= NextToPost(info)

-----------------------------------------------------------------------------
(* Properties of the reactions (SpecReact) *)

\* the count of the message's reaction with this emoji, 0 without one
VoteCount(reactions, emoji) ==
  LET with == {j \in 1..Len(reactions) : reactions[j].emoji = emoji}
  IN IF with = {} THEN 0 ELSE reactions[CHOOSE j \in with : TRUE].count

\* the reaction is on the question message the channel had recorded
OnCurrentQuestion(before, message) ==
  LET i == FindChannel(before, message.channel)
  IN /\ i # 0
     /\ message.author = BotUser
     /\ before[i].questionOfTheDay = message.id

\* the vote condition of the channel for this reaction
VoteCondition(info, messageReaction) ==
  IF info.asked = Bool(TRUE)
  THEN /\ messageReaction.emoji = info.upvoteId
       /\ messageReaction.count = info.reactCount + 1
  ELSE VoteCount(messageReaction.message.reactions, info.downvoteId)
         - VoteCount(messageReaction.message.reactions, info.upvoteId) = info.reactCount

\* C17: a reaction makes handleReaction call postNewMessage only if the
\* channel was known, the message is the bot's and is the channel's recorded
\* question message, and the vote condition holds (asked set: an upvote
\* whose count is reactCount + 1; asked not set: downvotes minus upvotes is
\* reactCount); a reaction on any other message creates no channel record
\* and posts nothing.
C17_ReactionAdvancesOnlyOnCurrentQuestion ==
  ev.op = "reaction" =>
    LET messageReaction == ev.args.messageReaction
        before == ev.args.before
        current == OnCurrentQuestion(before, messageReaction.message)
    IN /\ Called("postNewMessage") # {} =>
            /\ current
            /\ VoteCondition(before[FindChannel(before, messageReaction.message.channel)],
                             messageReaction)
       /\ ~current =>
            /\ loki.channelInfo = before
            /\ Called("postNewMessage") = {}
            /\ Called("send") = {}

\* a reaction on the notice of a new question, which the channel has
\* recorded as its question message, has made handleReaction call
\* postNewMessage
C17_Witness ==
  /\ ev.op = "reaction"
  /\ Called("postNewMessage") # {}
  /\ ev.args.messageReaction.message.id # MessageId(1)

-----------------------------------------------------------------------------
(* Properties of getNextQuestion and getChannelInfo (SpecPers) *)

\* what the caller's callback was called with
Handed == ev.log[CHOOSE n \in Called("callback") : TRUE].args

-----------------------------------------------------------------------------
(* Properties of the schema descriptor (Spec) *)

\* C23: initTables leaves the schema descriptor it is given as it was, so
\* that a second initTables with the same descriptor object issues the same
\* CREATE TABLE IF NOT EXISTS statements, with the same column names, as the
\* first.
C23_InitTablesKeepsDescriptor ==
  call.op = "initTables" =>
    /\ descr = call.a1
    /\ \A i \in 1..Len(descr) :
         CreateStatement(QuoteColumns(descr[i])) = CreateStatement(QuoteColumns(call.a1[i]))

====
